---- MODULE Spec2Model ----
(***************************************************************************)
(* The request handlers of the download route (src/route.js) and of the    *)
(* transcribe route (src/unnamed/part_002).  A request is a process whose  *)
(* steps are the pieces of handler code between two awaits; the providers  *)
(* (ytdl-core, noembed, the caption fetch, the file system, Whisper) are   *)
(* the environment and answer or throw nondeterministically.               *)
(***************************************************************************)
EXTENDS Integers, Sequences, FiniteSets, TLC

\* ------------------------------------------------------------------ bounds

\* Request slots of the server process.
NumReqs == 2
\* Longest info.formats list the extraction library returns.
MaxFormats == 2
\* Date.now() runs from 0 to MaxClock.
MaxClock == 1
\* Longest captionTracks list of a video.
MaxTracks == 2
\* Longest events list of a caption document.
MaxEvents == 2
\* Longest segments list of a transcription.
MaxSegments == 2

Reqs == 1..NumReqs

\* ------------------------------------------------------- program constants

\* part_002:76  if (duration > 1800)
MaxDuration == 1800
\* part_002:26 and route.js:17  [\w-]{6,}
MinIdLen == 6
\* route.js:38  .slice(0, 10)
SliceLimit == 10

\* --------------------------------------------------------------- characters

Lower == {"a","b","c","d","e","f","g","h","i","j","k","l","m",
          "n","o","p","q","r","s","t","u","v","w","x","y","z"}
Upper == {"A","B","C","D","E","F","G","H","I","J","K","L","M",
          "N","O","P","Q","R","S","T","U","V","W","X","Y","Z"}
Digit == {"0","1","2","3","4","5","6","7","8","9"}

\* [\w-] of ytRegex and [a-zA-Z0-9_-] of the two extraction patterns: the
\* same class of characters.
IdChar == Lower \cup Upper \cup Digit \cup {"_", "-"}

\* A string is a sequence of one-character strings.
h_t_t_p == <<"h","t","t","p">>
SchemeHttp == h_t_t_p \o <<":","/","/">>
SchemeHttps == h_t_t_p \o <<"s",":","/","/">>
Www == <<"w","w","w",".">>
YoutubeCom == <<"y","o","u","t","u","b","e",".","c","o","m","/">>
YoutuBe == <<"y","o","u","t","u",".","b","e","/">>
WatchV == <<"w","a","t","c","h","?","v","=">>
VEq == <<"v","=">>
Shorts == <<"s","h","o","r","t","s","/">>
Embed == <<"e","m","b","e","d","/">>
ExampleCom == <<"e","x","a","m","p","l","e",".","c","o","m","/">>
CobaltPrefix == <<"h","t","t","p","s",":","/","/","c","o","b","a","l","t",".",
                  "t","o","o","l","s","/","#","u","=">>

\* ------------------------------------------------------- string primitives

\* s.substring(i-1, i-1+Len(p)) === p   (positions from 1)
StartsAt(s, i, p) ==
    /\ i + Len(p) - 1 <= Len(s)
    /\ \A k \in 1..Len(p) : s[i + k - 1] = p[k]

\* Length of the longest run of identifier characters of s that starts at
\* position i: what a greedy [\w-]{n,} consumes there.
RECURSIVE IdRun(_, _)
IdRun(s, i) ==
    IF i <= Len(s) /\ s[i] \in IdChar THEN 1 + IdRun(s, i + 1) ELSE 0

\* ------------------------------------------------------------ URL Validator

UrlSchemes == {<<>>, SchemeHttp, SchemeHttps}
UrlWww == {<<>>, Www}
UrlShapes == {YoutubeCom \o WatchV, YoutubeCom \o Shorts, YoutubeCom \o Embed,
              YoutuBe}

\* ytRegex.test(url):
\*   /^(https?:\/\/)?(www\.)?(youtube\.com\/(watch\?v=|shorts\/|embed\/)|youtu\.be\/)[\w-]{6,}/
\* anchored at the start of the string only; whatever follows the identifier
\* is not looked at.
ytRegex(url) ==
    \E sch \in UrlSchemes, w \in UrlWww, shape \in UrlShapes :
        LET pre == sch \o w \o shape
        IN  /\ StartsAt(url, 1, pre)
            /\ IdRun(url, Len(pre) + 1) >= MinIdLen

\* url.match(/(?:P1|P2|...)([a-zA-Z0-9_-]{6,})/): the leftmost position where
\* one of the prefixes is followed by at least six identifier characters;
\* group 1 is the whole run of identifier characters there.  match is null
\* when there is no such position.
MatchPositions(url, prefixes) ==
    {i \in 1..Len(url) :
        \E p \in prefixes :
            StartsAt(url, i, p) /\ IdRun(url, i + Len(p)) >= MinIdLen}

NoMatch == [ok |-> FALSE, id |-> <<>>]

MatchId(url, prefixes) ==
    LET pos == MatchPositions(url, prefixes)
    IN  IF pos = {} THEN NoMatch
        ELSE LET i == CHOOSE k \in pos : \A j \in pos : k <= j
                 p == CHOOSE q \in prefixes :
                          StartsAt(url, i, q) /\ IdRun(url, i + Len(q)) >= MinIdLen
                 from == i + Len(p)
             IN  [ok |-> TRUE, id |-> SubSeq(url, from, from + IdRun(url, from) - 1)]

\* part_002:32-35   /(?:v=|youtu\.be\/|shorts\/|embed\/)([a-zA-Z0-9_-]{6,})/
vidMatch(url) == MatchId(url, {VEq, YoutuBe, Shorts, Embed})

\* route.js:150-151  /(?:v=|youtu\.be\/|shorts\/)([a-zA-Z0-9_-]{6,})/
noembedMatch(url) == MatchId(url, {VEq, YoutuBe, Shorts})

\* ------------------------------------------------------ encodeURIComponent

\* Characters encodeURIComponent leaves as they are.
Unreserved == IdChar \cup {".", "!", "~", "*", "'", "(", ")"}

\* The escape of a reserved character: "%" and the two hex digits of its code.
PercentCode(c) ==
    CASE c = ":" -> <<"%","3","A">>
      [] c = "/" -> <<"%","2","F">>
      [] c = "?" -> <<"%","3","F">>
      [] c = "=" -> <<"%","3","D">>
      [] c = "&" -> <<"%","2","6">>
      [] c = "#" -> <<"%","2","3">>
      [] c = "%" -> <<"%","2","5">>

RECURSIVE encodeFrom(_, _)
encodeFrom(s, i) ==
    IF i > Len(s) THEN <<>>
    ELSE (IF s[i] \in Unreserved THEN <<s[i]>> ELSE PercentCode(s[i]))
         \o encodeFrom(s, i + 1)

encodeURIComponent(s) == encodeFrom(s, 1)

\* route.js:88-90 and 141-143  `https://cobalt.tools/#u=${encodeURIComponent(url)}`
CobaltTarget(url) == CobaltPrefix \o encodeURIComponent(url)

\* ------------------------------------------------------------------ inputs

IdSix == <<"a","b","c","d","e","f">>
IdFive == <<"a","b","c","d","e">>
IdMixed == <<"A","-","_","1","x","y","z">>

\* The url strings a caller sends.
UrlWatch == SchemeHttps \o Www \o YoutubeCom \o WatchV \o IdSix
UrlWatchAmp == SchemeHttps \o YoutubeCom \o WatchV \o IdSix \o <<"&","t","=","1">>
UrlShortLink == YoutuBe \o IdMixed
UrlShorts == SchemeHttp \o Www \o YoutubeCom \o Shorts \o IdSix
UrlEmbed == SchemeHttps \o Www \o YoutubeCom \o Embed \o IdSix
UrlShortId == SchemeHttps \o YoutuBe \o IdFive
UrlOtherHost == SchemeHttps \o ExampleCom \o WatchV \o IdSix
UrlEmpty == <<>>

UrlTexts == {UrlWatch, UrlWatchAmp, UrlShortLink, UrlShorts, UrlEmbed,
             UrlShortId, UrlOtherHost, UrlEmpty}

\* body.url / searchParams.get("url"): absent (undefined, null) or a string.
NoUrl == [present |-> FALSE, text |-> <<>>]
UrlInputs == {NoUrl} \cup {[present |-> TRUE, text |-> t] : t \in UrlTexts}

\* !url : undefined, null and "" are falsy.
Falsy(u) == ~u.present \/ u.text = <<>>

\* searchParams.get("format") and searchParams.get("quality"); "" stands for
\* an absent or empty parameter (both falsy, both replaced by the default).
FormatInputs == {"", "mp3"}
QualityInputs == {"", "4K", "2K", "1080p", "720p", "480p", "360p", "144p",
                  "constructor"}

\* ---------------------------------------------------------- MediaVariant

\* audioBitrate of a variant that reports none (undefined).
NoBitrate == -1
\* qualityLabel of a variant that has none (null: audio-only variants).
NoLabel == "null"

\* The variants of the extraction library's info.formats, without their
\* place in the list.
FormatKinds ==
    { [hasVideo |-> TRUE,  hasAudio |-> TRUE,  qualityLabel |-> "1080p", audioBitrate |-> 128],
      [hasVideo |-> TRUE,  hasAudio |-> TRUE,  qualityLabel |-> "720p",  audioBitrate |-> 128],
      [hasVideo |-> TRUE,  hasAudio |-> FALSE, qualityLabel |-> "1080p", audioBitrate |-> NoBitrate],
      [hasVideo |-> FALSE, hasAudio |-> TRUE,  qualityLabel |-> NoLabel, audioBitrate |-> 128],
      [hasVideo |-> FALSE, hasAudio |-> TRUE,  qualityLabel |-> NoLabel, audioBitrate |-> NoBitrate] }

\* A variant is an object: two variants of equal attributes are still two
\* variants.  itag is the variant's place in info.formats.
WithItag(kinds) ==
    [i \in 1..Len(kinds) |->
        [itag |-> i, hasVideo |-> kinds[i].hasVideo, hasAudio |-> kinds[i].hasAudio,
         qualityLabel |-> kinds[i].qualityLabel, audioBitrate |-> kinds[i].audioBitrate]]

FormatLists == {WithItag(k) : k \in UNION {[1..n -> FormatKinds] : n \in 0..MaxFormats}}

\* undefined, as the value of chosenFormat / bestAudio.
NoFormat == [itag |-> 0, hasVideo |-> FALSE, hasAudio |-> FALSE,
             qualityLabel |-> NoLabel, audioBitrate |-> NoBitrate]

\* details.lengthSeconds: absent, or a number of seconds.
NoLength == -1
LengthInputs == {NoLength, MaxDuration - 1, MaxDuration, MaxDuration + 1}

\* What ytdl.getInfo(url) resolves to.
Infos == [resolved : {TRUE}, lengthSeconds : LengthInputs, formats : FormatLists]
\* info before getInfo has resolved.
NoInfo == [resolved |-> FALSE, lengthSeconds |-> NoLength, formats |-> <<>>]

\* ---------------------------------------------------------- Format Selector

IsAudioOnly(f) == ~f.hasVideo /\ f.hasAudio
IsVideoAndAudio(f) == f.hasVideo /\ f.hasAudio

\* ytdl.filterFormats(formats, "audioonly") / (formats, "videoandaudio"):
\* the variants that pass the filter, in the order of formats.
filterFormats(formats, filter) ==
    IF filter = "audioonly" THEN SelectSeq(formats, IsAudioOnly)
    ELSE SelectSeq(formats, IsVideoAndAudio)

\* parseInt(f.audioBitrate || 0)
BitrateOf(f) == IF f.audioBitrate = NoBitrate THEN 0 ELSE f.audioBitrate

\* Mutant of compareBitrate: the operands the wrong way round, an ascending sort.
compareBitrateAscending(a, b) == BitrateOf(a) - BitrateOf(b)

\* The comparator (a, b) => parseInt(b.audioBitrate || 0) - parseInt(a.audioBitrate || 0):
\* negative when a sorts before b.
compareBitrate(a, b) == BitrateOf(b) - BitrateOf(a)

\* x placed into the sorted sequence srt: after every element that does not
\* compare greater than it, so elements that compare equal keep their order.
RECURSIVE InsertSorted(_, _, _)
InsertSorted(x, srt, i) ==
    IF i > Len(srt) THEN Append(srt, x)
    ELSE IF compareBitrate(x, srt[i]) < 0
         THEN SubSeq(srt, 1, i - 1) \o <<x>> \o SubSeq(srt, i, Len(srt))
         ELSE InsertSorted(x, srt, i + 1)

\* Array.prototype.sort with that comparator: a stable sort.
RECURSIVE sortFrom(_, _, _)
sortFrom(arr, i, acc) ==
    IF i > Len(arr) THEN acc
    ELSE sortFrom(arr, i + 1, InsertSorted(arr[i], acc, 1))

sort(arr) == sortFrom(arr, 1, <<>>)

\* arr[0]
First(arr) == IF Len(arr) = 0 THEN NoFormat ELSE arr[1]

\* route.js:99-102 and part_002:84-87
\*   filterFormats(info.formats, "audioonly").sort(...)[0]
bestAudio(formats) == First(sort(filterFormats(formats, "audioonly")))

\* arr.find(f => f.qualityLabel === label)
find(arr, label) ==
    LET hits == {i \in 1..Len(arr) : arr[i].qualityLabel = label}
    IN  IF hits = {} THEN NoFormat
        ELSE arr[CHOOSE i \in hits : \A j \in hits : i <= j]

\* The own keys of the object literal qualityMap.
OwnKeys == {"4K", "2K", "1080p", "720p", "480p", "360p"}
\* Property names every object literal inherits from Object.prototype; the
\* value found there is a function, a truthy value equal to no label.
InheritedKeys == {"constructor", "toString", "valueOf", "hasOwnProperty"}
InheritedValue == "[Function]"

\* qualityMap[quality]; "undefined" when the name is found nowhere.
qualityMap(quality) ==
    CASE quality = "4K" -> "2160p"
      [] quality = "2K" -> "1440p"
      [] quality \in OwnKeys -> quality
      [] quality \in InheritedKeys -> InheritedValue
      [] OTHER -> "undefined"

\* route.js:76  searchParams.get("quality") || "1080p"
QualityOrDefault(q) == IF q = "" THEN "1080p" ELSE q

\* route.js:108  qualityMap[quality] || "1080p"
targetQ(quality) ==
    IF qualityMap(quality) = "undefined" THEN "1080p" ELSE qualityMap(quality)

\* route.js:109-113
videoChoice(formats, quality) ==
    LET videoFmts == filterFormats(formats, "videoandaudio")
        byTarget == find(videoFmts, targetQ(quality))
        by720 == find(videoFmts, "720p")
    IN  IF byTarget # NoFormat THEN byTarget
        ELSE IF by720 # NoFormat THEN by720
        ELSE First(videoFmts)

\* route.js:97-114
chosenFormat(formats, format, quality) ==
    IF format = "mp3" THEN bestAudio(formats) ELSE videoChoice(formats, quality)

\* route.js:36-38  info.formats.filter(f => f.hasVideo && f.hasAudio).slice(0, 10)
listedFormats(formats) ==
    LET both == SelectSeq(formats, IsVideoAndAudio)
    IN  SubSeq(both, 1, IF Len(both) < SliceLimit THEN Len(both) ELSE SliceLimit)

\* part_002:73  parseInt(details.lengthSeconds || 0)
durationOf(info) == IF info.lengthSeconds = NoLength THEN 0 ELSE info.lengthSeconds

\* Mutant of TooLong: the ceiling itself is rejected too.
TooLongInclusive(duration) == duration >= MaxDuration

\* part_002:76  duration > 1800
TooLong(duration) == duration > MaxDuration

\* Mutant of whisperPlan: the audio variant is looked for before the duration
\* is checked.
whisperPlanAudioFirst(info) ==
    IF bestAudio(info.formats) = NoFormat THEN "captions"
    ELSE IF durationOf(info) > MaxDuration THEN "TooLong"
    ELSE "download"

\* part_002:70-94: what whisperTranscribe does with the info it got, in the
\* order of the code: the duration guard, then the audio variant.
whisperPlan(info) ==
    IF TooLong(durationOf(info)) THEN "TooLong"
    ELSE IF bestAudio(info.formats) = NoFormat THEN "captions"
    ELSE "download"

\* ---------------------------------------------------- captions, segments

\* Sequences over S of length at most n.
UpTo(S, n) == UNION {[1..k -> S] : k \in 0..n}

En == <<"e","n">>
\* The languageCode of a caption track: en, en-US, fr.
LanguageCodes == {En, <<"e","n","-","U","S">>, <<"f","r">>}

\* captionTracks, each track by its languageCode; <<>> also stands for a
\* player_response without captionTracks.
TrackLists == UpTo(LanguageCodes, MaxTracks)

\* tracks and track before captionFallback's getInfo has resolved.
NoTracks == [resolved |-> FALSE, list |-> <<>>]
NoTrack == 0

\* Mutant of chooseTrack: a code that starts with "en" is preferred to the
\* exact "en".
chooseTrackPrefixFirst(list) ==
    LET prefixed == {i \in 1..Len(list) : StartsAt(list[i], 1, En)}
    IN  IF prefixed # {} THEN CHOOSE i \in prefixed : \A j \in prefixed : i <= j
        ELSE 1

\* part_002:149-152  tracks.find(exactly "en") || tracks.find(starts with
\* "en") || tracks[0], as a place in tracks
chooseTrack(list) ==
    LET exact == {i \in 1..Len(list) : list[i] = En}
        prefixed == {i \in 1..Len(list) : StartsAt(list[i], 1, En)}
    IN  IF exact # {} THEN CHOOSE i \in exact : \A j \in exact : i <= j
        ELSE IF prefixed # {} THEN CHOOSE i \in prefixed : \A j \in prefixed : i <= j
        ELSE 1

\* text.replace(/\n/g, " ")
replaceNewlines(text) == [i \in 1..Len(text) |-> IF text[i] = "\n" THEN " " ELSE text[i]]

\* text.trimStart(), text.trimEnd(): the white space of the texts is the
\* blank and the newline.
RECURSIVE trimStart(_)
trimStart(text) ==
    IF text # <<>> /\ Head(text) \in {" ", "\n"} THEN trimStart(Tail(text)) ELSE text

RECURSIVE trimEnd(_)
trimEnd(text) ==
    IF text # <<>> /\ text[Len(text)] \in {" ", "\n"}
    THEN trimEnd(SubSeq(text, 1, Len(text) - 1)) ELSE text

\* text.trim()
trim(text) == trimEnd(trimStart(text))

\* arr.join(sep)
RECURSIVE join(_, _)
join(arr, sep) ==
    IF arr = <<>> THEN <<>>
    ELSE IF Len(arr) = 1 THEN arr[1]
    ELSE arr[1] \o sep \o join(Tail(arr), sep)

\* An absent tStartMs or dDurationMs.
NoMs == -1
\* part_002:162  e.dDurationMs || 2000
DefaultDurationMs == 2000

\* x || d for a number x: absent and 0 are falsy.
OrDefault(x, d) == IF x = NoMs \/ x = 0 THEN d ELSE x

\* The events of a caption document (fmt=json3); segs holds the utf8 of each
\* seg, <<>> for a seg without one (s.utf8 || "").
EventHi == [hasSegs |-> TRUE, segs |-> << <<" ","h","i","\n">> >>,
            tStartMs |-> NoMs, dDurationMs |-> NoMs]
\* An event without segs; " hi\n" with no times; "a\n" and "b"; a newline
\* alone, of duration 0; "a" and a seg without utf8.
EventKinds ==
    { [hasSegs |-> FALSE, segs |-> <<>>, tStartMs |-> 0, dDurationMs |-> 1000],
      EventHi,
      [hasSegs |-> TRUE, segs |-> << <<"a","\n">>, <<"b">> >>,
       tStartMs |-> 1500, dDurationMs |-> 1000],
      [hasSegs |-> TRUE, segs |-> << <<"\n">> >>, tStartMs |-> 2500, dDurationMs |-> 0],
      [hasSegs |-> TRUE, segs |-> << <<"a">>, <<>> >>,
       tStartMs |-> 3000, dDurationMs |-> 500] }

\* data.events; <<>> also stands for a document without events.
EventLists == UpTo(EventKinds, MaxEvents)

\* data before the caption document has been fetched.
NoData == [resolved |-> FALSE, events |-> <<>>]

HasSegs(e) == e.hasSegs

\* part_002:160-164  the map of an event to a segment; times stay in
\* milliseconds (the code divides both by 1000).
eventSegment(e) ==
    [start |-> OrDefault(e.tStartMs, 0),
     end |-> OrDefault(e.tStartMs, 0) + OrDefault(e.dDurationMs, DefaultDurationMs),
     text |-> trim(replaceNewlines(join(e.segs, <<>>)))]

\* part_002:169  .filter((s) => s.text.length > 1)
keepSegment(s) == Len(s.text) > 1

\* part_002:158-169  (data.events || []).filter(e => e.segs).map(...).filter(...)
captionSegments(events) ==
    LET withSegs == SelectSeq(events, HasSegs)
    IN  SelectSeq([i \in 1..Len(withSegs) |-> eventSegment(withSegs[i])], keepSegment)

\* The segments the transcription provider returns, times in milliseconds:
\* " hi"; " ok" of zero length; a blank text.
SegHi == [start |-> 0, end |-> 2000, text |-> <<" ","h","i">>]
SegmentKinds ==
    { SegHi,
      [start |-> 2000, end |-> 2000, text |-> <<" ","o","k">>],
      [start |-> 2000, end |-> 3000, text |-> <<" ">>] }

\* What openai.audio.transcriptions.create resolves to; segments <<>> also
\* stands for a transcription without segments (transcription.segments || []).
Transcriptions ==
    [resolved : {TRUE}, text : {<<"h","i">>}, segments : UpTo(SegmentKinds, MaxSegments)]

\* transcription before the provider has resolved.
NoTranscription == [resolved |-> FALSE, text |-> <<>>, segments |-> <<>>]

\* part_002:111-115  the map of a provider segment to a response segment
whisperSegment(s) == [start |-> s.start, end |-> s.end, text |-> trim(s.text)]

\* part_002:111-115  (transcription.segments || []).map(...)
whisperSegments(segments) ==
    [i \in 1..Len(segments) |-> whisperSegment(segments[i])]

\* ---------------------------------------------------------------- responses

NoLocation == <<>>

\* A response: its status, its kind of body, and of a JSON body the property
\* names (fields; video holds those of its video object) and the values the
\* properties checked here carry.
Response(status, kind, error) ==
    [status |-> status, kind |-> kind, error |-> error, location |-> NoLocation,
     source |-> "", note |-> "", formats |-> <<>>,
     fields |-> {}, video |-> {},
     language |-> <<>>, transcript |-> <<>>, segments |-> <<>>]

NoResponse == Response(0, "none", "")

\* NextResponse.json({ error }, { status })
ErrorJson(status, error) ==
    [Response(status, "json", error) EXCEPT !.fields = {"error"}]

\* NextResponse.redirect(`https://cobalt.tools/#u=...`): a 307 by default.
Redirect(url) ==
    [Response(307, "redirect", "") EXCEPT !.location = CobaltTarget(url)]

\* Mutant of onDownloadError: the provider's failure is reported as a 500.
onDownloadError500(url) == ErrorJson(500, "Failed to download video")

\* route.js:138-144  the catch of GET
onDownloadError(url) == Redirect(url)

\* route.js:46-59
MetadataJson(info) ==
    [Response(200, "json", "") EXCEPT
        !.formats = listedFormats(info.formats),
        !.fields = {"success", "video"},
        !.video = {"id", "title", "channel", "duration", "views", "thumbnail", "formats"}]

\* route.js:159-170
NoembedJson ==
    [Response(200, "json", "") EXCEPT
        !.note = "Install @distube/ytdl-core for full format info.",
        !.fields = {"success", "video", "note"},
        !.video = {"id", "title", "channel", "thumbnail", "duration", "formats"}]

\* route.js:129-137
FileResponse == Response(200, "binary", "")

\* part_002:117-126
WhisperJson(t) ==
    [Response(200, "json", "") EXCEPT
        !.source = "whisper",
        !.fields = {"success", "title", "transcript", "segments", "language",
                    "duration", "wordCount", "source"},
        !.language = En,
        !.transcript = t.text,
        !.segments = whisperSegments(t.segments)]

\* part_002:172-180
CaptionsJson(languageCode, segments) ==
    [Response(200, "json", "") EXCEPT
        !.fields = {"success", "title", "transcript", "segments", "language",
                    "source", "note"},
        !.language = languageCode,
        !.transcript = join([i \in 1..Len(segments) |-> segments[i].text], <<" ">>),
        !.segments = segments,
        !.source = "youtube-captions",
        !.note = "Using YouTube auto-captions. Add OPENAI_API_KEY to .env.local for AI-powered Whisper transcription."]

\* ---------------------------------------------------------------- temp file

\* part_002:57  join(tmpDir, `ytflow_${videoId}_${Date.now()}.mp4`)
FileName(videoId, now) == [vid |-> videoId, ts |-> now]
NoFile == [vid |-> <<>>, ts |-> -1]

\* writeFile(tmpFile, ...) by request r: the file exists, with r's bytes.
writeFile(files, name, r) ==
    {f \in files : f.name # name} \cup {[name |-> name, by |-> r]}

\* Mutant of unlink: the file is left where it is.
unlinkSkipped(files, name) == files

\* unlink(tmpFile).catch(() => {}): the file is gone; no file, no effect.
unlink(files, name) == {f \in files : f.name # name}

Exists(files, name) == \E f \in files : f.name = name

\* -------------------------------------------------------------------- state

VARIABLES
    OPENAI_API_KEY,  \* process.env.OPENAI_API_KEY is set
    ytdlInstalled,   \* import("@distube/ytdl-core") resolves
    clock,           \* Date.now()
    fs,              \* the files of tmpdir(): [name, by]
    pc,              \* where each request is
    req,             \* what each request asked: [op, url, format, quality]
    videoId,         \* the match of the extraction pattern
    tmpFile,         \* whisperTranscribe's tmpFile
    info,            \* what getInfo resolved to
    chosen,          \* chosenFormat / bestAudio
    calls,           \* the providers a request has invoked
    thrown,          \* the providers that threw in a request
    tracks,          \* captionFallback's tracks
    track,           \* captionFallback's track: its place in tracks
    data,            \* captionFallback's data: the caption document fetched
    transcription,   \* whisperTranscribe's transcription
    resp             \* the response being returned

vars == <<OPENAI_API_KEY, ytdlInstalled, clock, fs, pc, req, videoId, tmpFile,
          info, chosen, calls, thrown, tracks, track, data, transcription, resp>>

env == <<OPENAI_API_KEY, ytdlInstalled>>

payloads == <<tracks, track, data, transcription>>

Ops == {"download POST", "download GET", "transcribe POST"}

NoRequest == [op |-> "", url |-> NoUrl, format |-> "", quality |-> ""]

\* format and quality are parameters of GET /download only.
Requests ==
    [op : {"download GET"}, url : UrlInputs, format : FormatInputs, quality : QualityInputs]
    \cup [op : {"download POST", "transcribe POST"}, url : UrlInputs,
          format : {""}, quality : {""}]

\* The state of a server that has handled nothing yet; slot 1 takes requests
\* one after the other.
Init ==
    /\ OPENAI_API_KEY \in BOOLEAN
    /\ ytdlInstalled \in BOOLEAN
    /\ clock = 0
    /\ fs = {}
    /\ pc = [r \in Reqs |-> IF r = 1 THEN "idle" ELSE "off"]
    /\ req = [r \in Reqs |-> NoRequest]
    /\ videoId = [r \in Reqs |-> NoMatch]
    /\ tmpFile = [r \in Reqs |-> NoFile]
    /\ info = [r \in Reqs |-> NoInfo]
    /\ chosen = [r \in Reqs |-> NoFormat]
    /\ calls = [r \in Reqs |-> {}]
    /\ thrown = [r \in Reqs |-> {}]
    /\ tracks = [r \in Reqs |-> NoTracks]
    /\ track = [r \in Reqs |-> NoTrack]
    /\ data = [r \in Reqs |-> NoData]
    /\ transcription = [r \in Reqs |-> NoTranscription]
    /\ resp = [r \in Reqs |-> NoResponse]

\* --------------------------------------------------------- steps, in general

\* return <response> from a handler outside whisperTranscribe's try.
Return(r, response) ==
    /\ resp' = [resp EXCEPT ![r] = response]
    /\ pc' = [pc EXCEPT ![r] = "done"]

\* return or throw inside whisperTranscribe's try: the finally block runs
\* before the response leaves the handler.
Leave(r, response) ==
    /\ resp' = [resp EXCEPT ![r] = response]
    /\ pc' = [pc EXCEPT ![r] = "w_finally"]

Goto(r, label) == pc' = [pc EXCEPT ![r] = label]

Call(r, provider) == calls' = [calls EXCEPT ![r] = @ \cup {provider}]

Throw(r, provider) == thrown' = [thrown EXCEPT ![r] = @ \cup {provider}]

\* A request arrives, one of requests.
ReceiveFrom(r, requests) ==
    /\ pc[r] = "idle"
    /\ \E q \in requests : req' = [req EXCEPT ![r] = q]
    /\ Goto(r, "start")
    /\ UNCHANGED <<env, payloads, clock, fs, videoId, tmpFile, info, chosen, calls, thrown, resp>>

\* A request arrives.
Receive(r) == ReceiveFrom(r, Requests)

\* The response has been sent; the handler's locals are gone.
Finish(r) ==
    /\ pc[r] = "done"
    /\ pc' = [pc EXCEPT ![r] = "idle"]
    /\ req' = [req EXCEPT ![r] = NoRequest]
    /\ videoId' = [videoId EXCEPT ![r] = NoMatch]
    /\ tmpFile' = [tmpFile EXCEPT ![r] = NoFile]
    /\ info' = [info EXCEPT ![r] = NoInfo]
    /\ chosen' = [chosen EXCEPT ![r] = NoFormat]
    /\ calls' = [calls EXCEPT ![r] = {}]
    /\ thrown' = [thrown EXCEPT ![r] = {}]
    /\ tracks' = [tracks EXCEPT ![r] = NoTracks]
    /\ track' = [track EXCEPT ![r] = NoTrack]
    /\ data' = [data EXCEPT ![r] = NoData]
    /\ transcription' = [transcription EXCEPT ![r] = NoTranscription]
    /\ resp' = [resp EXCEPT ![r] = NoResponse]
    /\ UNCHANGED <<env, clock, fs>>

\* A millisecond passes.
Tick ==
    /\ clock < MaxClock
    /\ clock' = clock + 1
    /\ UNCHANGED <<env, payloads, fs, pc, req, videoId, tmpFile, info, chosen, calls, thrown, resp>>

\* ------------------------------------------------- POST /download (route.js)

\* route.js:10-20  the body is read, the url validated
POST_Validate(r) ==
    /\ pc[r] = "start" /\ req[r].op = "download POST"
    /\ IF Falsy(req[r].url) THEN Return(r, ErrorJson(400, "URL is required"))
       ELSE IF ~ytRegex(req[r].url.text) THEN Return(r, ErrorJson(400, "Invalid YouTube URL"))
       ELSE Goto(r, "p_import") /\ UNCHANGED resp
    /\ UNCHANGED <<env, payloads, clock, fs, req, videoId, tmpFile, info, chosen, calls, thrown>>

\* route.js:23-32  the library loads and getInfo is called
POST_Import(r) ==
    /\ pc[r] = "p_import" /\ ytdlInstalled
    /\ Call(r, "getInfo")
    /\ Goto(r, "p_getInfo")
    /\ UNCHANGED <<env, payloads, clock, fs, req, videoId, tmpFile, info, chosen, thrown, resp>>

\* route.js:27-30 and 148-156  the import throws: noembedFallback(url), up to
\* its fetch
POST_ImportFails(r) ==
    /\ pc[r] = "p_import" /\ ~ytdlInstalled
    /\ LET match == noembedMatch(req[r].url.text)
       IN  /\ videoId' = [videoId EXCEPT ![r] = match]
           /\ IF ~match.ok
              THEN Return(r, ErrorJson(500, "Could not extract video ID")) /\ UNCHANGED calls
              ELSE Call(r, "noembed") /\ Goto(r, "n_fetch") /\ UNCHANGED resp
    /\ UNCHANGED <<env, payloads, clock, fs, req, tmpFile, info, chosen, thrown>>

\* route.js:32-59  getInfo resolves
POST_GetInfo(r) ==
    /\ pc[r] = "p_getInfo"
    /\ \E i \in Infos :
        /\ info' = [info EXCEPT ![r] = i]
        /\ Return(r, MetadataJson(i))
    /\ UNCHANGED <<env, payloads, clock, fs, req, videoId, tmpFile, chosen, calls, thrown>>

\* route.js:60-63  getInfo rejects
POST_GetInfoThrows(r) ==
    /\ pc[r] = "p_getInfo"
    /\ Throw(r, "getInfo")
    /\ Return(r, ErrorJson(500, "err.message"))
    /\ UNCHANGED <<env, payloads, clock, fs, req, videoId, tmpFile, info, chosen, calls>>

\* route.js:154-170  noembed answers
noembed_Fetch(r) ==
    /\ pc[r] = "n_fetch"
    /\ Return(r, NoembedJson)
    /\ UNCHANGED <<env, payloads, clock, fs, req, videoId, tmpFile, info, chosen, calls, thrown>>

\* route.js:171-173  fetch or res.json() rejects
noembed_FetchThrows(r) ==
    /\ pc[r] = "n_fetch"
    /\ Throw(r, "noembed")
    /\ Return(r, ErrorJson(500, "err.message"))
    /\ UNCHANGED <<env, payloads, clock, fs, req, videoId, tmpFile, info, chosen, calls>>

\* -------------------------------------------------- GET /download (route.js)

\* route.js:73-80
GET_Validate(r) ==
    /\ pc[r] = "start" /\ req[r].op = "download GET"
    /\ IF Falsy(req[r].url) THEN Return(r, ErrorJson(400, "url param required"))
       ELSE Goto(r, "g_import") /\ UNCHANGED resp
    /\ UNCHANGED <<env, payloads, clock, fs, req, videoId, tmpFile, info, chosen, calls, thrown>>

\* route.js:82-94  the library loads and getInfo is called
GET_Import(r) ==
    /\ pc[r] = "g_import" /\ ytdlInstalled
    /\ Call(r, "getInfo")
    /\ Goto(r, "g_getInfo")
    /\ UNCHANGED <<env, payloads, clock, fs, req, videoId, tmpFile, info, chosen, thrown, resp>>

\* route.js:86-91  the import throws
GET_ImportFails(r) ==
    /\ pc[r] = "g_import" /\ ~ytdlInstalled
    /\ Return(r, Redirect(req[r].url.text))
    /\ UNCHANGED <<env, payloads, clock, fs, req, videoId, tmpFile, info, chosen, calls, thrown>>

\* route.js:94-121  getInfo resolves, a variant is chosen, the stream starts
GET_GetInfo(r) ==
    /\ pc[r] = "g_getInfo"
    /\ \E i \in Infos :
        LET quality == QualityOrDefault(req[r].quality)
            c == chosenFormat(i.formats, req[r].format, quality)
        IN  /\ info' = [info EXCEPT ![r] = i]
            /\ chosen' = [chosen EXCEPT ![r] = c]
            /\ IF c = NoFormat
               THEN Return(r, ErrorJson(404, "No suitable format found")) /\ UNCHANGED calls
               ELSE Call(r, "download") /\ Goto(r, "g_stream") /\ UNCHANGED resp
    /\ UNCHANGED <<env, payloads, clock, fs, req, videoId, tmpFile, thrown>>

\* route.js:138-144  getInfo rejects
GET_GetInfoThrows(r) ==
    /\ pc[r] = "g_getInfo"
    /\ Throw(r, "getInfo")
    /\ Return(r, onDownloadError(req[r].url.text))
    /\ UNCHANGED <<env, payloads, clock, fs, req, videoId, tmpFile, info, chosen, calls>>

\* route.js:123-137  the stream ends
GET_Stream(r) ==
    /\ pc[r] = "g_stream"
    /\ Return(r, FileResponse)
    /\ UNCHANGED <<env, payloads, clock, fs, req, videoId, tmpFile, info, chosen, calls, thrown>>

\* route.js:138-144  the stream throws
GET_StreamThrows(r) ==
    /\ pc[r] = "g_stream"
    /\ Throw(r, "download")
    /\ Return(r, onDownloadError(req[r].url.text))
    /\ UNCHANGED <<env, payloads, clock, fs, req, videoId, tmpFile, info, chosen, calls>>

\* ---------------------------------------- POST /transcribe (unnamed/part_002)

\* part_002:17-46 and 55-63  the body is read, the url validated, the
\* identifier extracted; with a credential whisperTranscribe starts and names
\* its temp file, without one captionFallback starts
transcribe_Validate(r) ==
    /\ pc[r] = "start" /\ req[r].op = "transcribe POST"
    /\ LET url == req[r].url
           match == vidMatch(url.text)
       IN  IF Falsy(url)
           THEN Return(r, ErrorJson(400, "URL is required"))
                /\ UNCHANGED <<videoId, tmpFile, calls>>
           ELSE IF ~ytRegex(url.text)
           THEN Return(r, ErrorJson(400, "Invalid YouTube URL"))
                /\ UNCHANGED <<videoId, tmpFile, calls>>
           ELSE IF ~match.ok
           THEN Return(r, ErrorJson(400, "Could not extract video ID"))
                /\ videoId' = [videoId EXCEPT ![r] = match]
                /\ UNCHANGED <<tmpFile, calls>>
           ELSE IF OPENAI_API_KEY
           THEN /\ videoId' = [videoId EXCEPT ![r] = match]
                /\ tmpFile' = [tmpFile EXCEPT ![r] = FileName(match.id, clock)]
                /\ Goto(r, "w_import")
                /\ UNCHANGED <<resp, calls>>
           ELSE /\ videoId' = [videoId EXCEPT ![r] = match]
                /\ Call(r, "captionFallback")
                /\ Goto(r, "c_import")
                /\ UNCHANGED <<resp, tmpFile>>
    /\ UNCHANGED <<env, payloads, clock, fs, req, info, chosen, thrown>>

\* part_002:62-71  the library loads and getInfo is called
whisper_Import(r) ==
    /\ pc[r] = "w_import" /\ ytdlInstalled
    /\ Call(r, "getInfo")
    /\ Goto(r, "w_getInfo")
    /\ UNCHANGED <<env, payloads, clock, fs, req, videoId, tmpFile, info, chosen, thrown, resp>>

\* part_002:65-68  the import throws: captionFallback(videoId)
whisper_ImportFails(r) ==
    /\ pc[r] = "w_import" /\ ~ytdlInstalled
    /\ Call(r, "captionFallback")
    /\ Goto(r, "c_import")
    /\ UNCHANGED <<env, payloads, clock, fs, req, videoId, tmpFile, info, chosen, thrown, resp>>

\* part_002:71-96  getInfo resolves: the duration guard, the best audio
\* variant, the audio stream starts
whisper_GetInfoFrom(r, infos) ==
    /\ pc[r] = "w_getInfo"
    /\ \E i \in infos :
        LET plan == whisperPlan(i)
        IN  /\ info' = [info EXCEPT ![r] = i]
            /\ CASE plan = "TooLong" ->
                      /\ Leave(r, ErrorJson(400, "Video too long"))
                      /\ UNCHANGED <<chosen, calls>>
                 [] plan = "captions" ->
                      /\ Call(r, "captionFallback")
                      /\ Goto(r, "c_import")
                      /\ UNCHANGED <<chosen, resp>>
                 [] plan = "download" ->
                      /\ chosen' = [chosen EXCEPT ![r] = bestAudio(i.formats)]
                      /\ Call(r, "download")
                      /\ Goto(r, "w_download")
                      /\ UNCHANGED resp
    /\ UNCHANGED <<env, payloads, clock, fs, req, videoId, tmpFile, thrown>>

whisper_GetInfo(r) == whisper_GetInfoFrom(r, Infos)

\* part_002:71  getInfo rejects; the error passes through finally to POST's catch
whisper_GetInfoThrows(r) ==
    /\ pc[r] = "w_getInfo"
    /\ Throw(r, "getInfo")
    /\ Leave(r, ErrorJson(500, "err.message"))
    /\ UNCHANGED <<env, payloads, clock, fs, req, videoId, tmpFile, info, chosen, calls>>

\* part_002:96-97  the audio stream ends and writeFile is called
whisper_Download(r) ==
    /\ pc[r] = "w_download"
    /\ Call(r, "writeFile")
    /\ Goto(r, "w_write")
    /\ UNCHANGED <<env, payloads, clock, fs, req, videoId, tmpFile, info, chosen, thrown, resp>>

\* part_002:96  the audio stream throws
whisper_DownloadThrows(r) ==
    /\ pc[r] = "w_download"
    /\ Throw(r, "download")
    /\ Leave(r, ErrorJson(500, "err.message"))
    /\ UNCHANGED <<env, payloads, clock, fs, req, videoId, tmpFile, info, chosen, calls>>

\* part_002:97-100  writeFile resolves and the openai package is imported
whisper_Write(r) ==
    /\ pc[r] = "w_write"
    /\ fs' = writeFile(fs, tmpFile[r], r)
    /\ Goto(r, "w_openai")
    /\ UNCHANGED <<env, payloads, clock, req, videoId, tmpFile, info, chosen, calls, thrown, resp>>

\* part_002:97  writeFile rejects, with the file created or not
whisper_WriteThrows(r) ==
    /\ pc[r] = "w_write"
    /\ \E created \in BOOLEAN :
        fs' = IF created THEN writeFile(fs, tmpFile[r], r) ELSE fs
    /\ Throw(r, "writeFile")
    /\ Leave(r, ErrorJson(500, "err.message"))
    /\ UNCHANGED <<env, payloads, clock, req, videoId, tmpFile, info, chosen, calls>>

\* part_002:100-109  the openai package loads; the temp file is opened and
\* handed to the transcription provider
whisper_OpenAI(r) ==
    /\ pc[r] = "w_openai"
    /\ Call(r, "whisper")
    /\ Goto(r, "w_whisper")
    /\ UNCHANGED <<env, payloads, clock, fs, req, videoId, tmpFile, info, chosen, thrown, resp>>

\* part_002:100  the import of the openai package throws
whisper_OpenAIThrows(r) ==
    /\ pc[r] = "w_openai"
    /\ Throw(r, "openai")
    /\ Leave(r, ErrorJson(500, "err.message"))
    /\ UNCHANGED <<env, payloads, clock, fs, req, videoId, tmpFile, info, chosen, calls>>

\* part_002:103-126  the transcription resolves, to one of transcriptions
whisper_TranscribedFrom(r, transcriptions) ==
    /\ pc[r] = "w_whisper"
    /\ \E t \in transcriptions :
        /\ transcription' = [transcription EXCEPT ![r] = t]
        /\ Leave(r, WhisperJson(t))
    /\ UNCHANGED <<env, tracks, track, data, clock, fs, req, videoId, tmpFile, info,
                   chosen, calls, thrown>>

whisper_Transcribed(r) ==
    whisper_TranscribedFrom(r, {t \in Transcriptions : t.segments = <<SegHi>>})

\* part_002:103  the transcription rejects
whisper_TranscribeThrows(r) ==
    /\ pc[r] = "w_whisper"
    /\ Throw(r, "whisper")
    /\ Leave(r, ErrorJson(500, "err.message"))
    /\ UNCHANGED <<env, payloads, clock, fs, req, videoId, tmpFile, info, chosen, calls>>

\* part_002:128-131  finally: the temp file is unlinked, then the response (or
\* the error, turned into a 500 by POST's catch) leaves the handler
whisper_Finally(r) ==
    /\ pc[r] = "w_finally"
    /\ fs' = unlink(fs, tmpFile[r])
    /\ Goto(r, "done")
    /\ UNCHANGED <<env, payloads, clock, req, videoId, tmpFile, info, chosen, calls, thrown, resp>>

\* return from captionFallback: to POST directly, or to whisperTranscribe,
\* whose finally block then runs.
CaptionReturn(r, response) ==
    IF tmpFile[r] = NoFile THEN Return(r, response) ELSE Leave(r, response)

\* part_002:137-142  the library loads and getInfo is called
caption_Import(r) ==
    /\ pc[r] = "c_import" /\ ytdlInstalled
    /\ Call(r, "getInfo")
    /\ Goto(r, "c_getInfo")
    /\ UNCHANGED <<env, payloads, clock, fs, req, videoId, tmpFile, info, chosen, thrown, resp>>

\* part_002:138 and 193-200  the import throws inside captionFallback's try
caption_ImportFails(r) ==
    /\ pc[r] = "c_import" /\ ~ytdlInstalled
    /\ CaptionReturn(r, ErrorJson(500, "Could not fetch captions"))
    /\ UNCHANGED <<env, payloads, clock, fs, req, videoId, tmpFile, info, chosen, calls, thrown>>

\* part_002:140-155 and 184-191  getInfo resolves, to one of trackLists: with
\* caption tracks (one is chosen and fetched) or without
caption_GetInfoFrom(r, trackLists) ==
    /\ pc[r] = "c_getInfo"
    /\ \E list \in trackLists :
        /\ tracks' = [tracks EXCEPT ![r] = [resolved |-> TRUE, list |-> list]]
        /\ IF Len(list) > 0
           THEN /\ track' = [track EXCEPT ![r] = chooseTrack(list)]
                /\ Call(r, "captionFetch")
                /\ Goto(r, "c_fetch")
                /\ UNCHANGED resp
           ELSE /\ CaptionReturn(r, ErrorJson(404, "No captions available"))
                /\ UNCHANGED <<track, calls>>
    /\ UNCHANGED <<env, data, transcription, clock, fs, req, videoId, tmpFile, info,
                   chosen, thrown>>

caption_GetInfo(r) == caption_GetInfoFrom(r, {<<>>, <<En>>})

\* part_002:140 and 193-200  getInfo rejects
caption_GetInfoThrows(r) ==
    /\ pc[r] = "c_getInfo"
    /\ Throw(r, "getInfo")
    /\ CaptionReturn(r, ErrorJson(500, "Could not fetch captions"))
    /\ UNCHANGED <<env, payloads, clock, fs, req, videoId, tmpFile, info, chosen, calls>>

\* part_002:155-191  the track is fetched, its document holding one of
\* eventLists: some segments are kept, or none
caption_FetchFrom(r, eventLists) ==
    /\ pc[r] = "c_fetch"
    /\ \E events \in eventLists :
        LET segments == captionSegments(events)
        IN  /\ data' = [data EXCEPT ![r] = [resolved |-> TRUE, events |-> events]]
            /\ CaptionReturn(r, IF Len(segments) > 0
                                THEN CaptionsJson(tracks[r].list[track[r]], segments)
                                ELSE ErrorJson(404, "No captions available"))
    /\ UNCHANGED <<env, tracks, track, transcription, clock, fs, req, videoId, tmpFile,
                   info, chosen, calls, thrown>>

caption_Fetch(r) == caption_FetchFrom(r, {<<>>, <<EventHi>>})

\* part_002:155-156 and 193-200  fetch or res.json() rejects
caption_FetchThrows(r) ==
    /\ pc[r] = "c_fetch"
    /\ Throw(r, "captionFetch")
    /\ CaptionReturn(r, ErrorJson(500, "Could not fetch captions"))
    /\ UNCHANGED <<env, payloads, clock, fs, req, videoId, tmpFile, info, chosen, calls>>

\* ------------------------------------------------------------ specification

Step(r) ==
    \/ Receive(r) \/ Finish(r)
    \/ POST_Validate(r) \/ POST_Import(r) \/ POST_ImportFails(r)
    \/ POST_GetInfo(r) \/ POST_GetInfoThrows(r)
    \/ noembed_Fetch(r) \/ noembed_FetchThrows(r)
    \/ GET_Validate(r) \/ GET_Import(r) \/ GET_ImportFails(r)
    \/ GET_GetInfo(r) \/ GET_GetInfoThrows(r)
    \/ GET_Stream(r) \/ GET_StreamThrows(r)
    \/ transcribe_Validate(r)
    \/ whisper_Import(r) \/ whisper_ImportFails(r)
    \/ whisper_GetInfo(r) \/ whisper_GetInfoThrows(r)
    \/ whisper_Download(r) \/ whisper_DownloadThrows(r)
    \/ whisper_Write(r) \/ whisper_WriteThrows(r)
    \/ whisper_OpenAI(r) \/ whisper_OpenAIThrows(r)
    \/ whisper_Transcribed(r) \/ whisper_TranscribeThrows(r)
    \/ whisper_Finally(r)
    \/ caption_Import(r) \/ caption_ImportFails(r)
    \/ caption_GetInfo(r) \/ caption_GetInfoThrows(r)
    \/ caption_Fetch(r) \/ caption_FetchThrows(r)

Next == Tick \/ \E r \in Reqs : Step(r)

Spec == Init /\ [][Next]_vars

\* ---------------------------------------- POST /transcribe, every payload

\* The requests, and the answers of getInfo, that take POST /transcribe down
\* each of its paths.
TranscribeRequests ==
    {q \in Requests : /\ q.op = "transcribe POST"
                      /\ q.url.text \in {<<>>, UrlWatch, UrlShortLink, UrlOtherHost}}
InfosPlain ==
    {i \in Infos : Len(i.formats) <= 1 /\ i.lengthSeconds \in {MaxDuration, MaxDuration + 1}}

\* The steps of POST /transcribe, the providers answering from the given sets.
TranscribeStep(r, requests, infos, trackLists, eventLists, transcriptions) ==
    \/ ReceiveFrom(r, requests) \/ Finish(r)
    \/ transcribe_Validate(r)
    \/ whisper_Import(r) \/ whisper_ImportFails(r)
    \/ whisper_GetInfoFrom(r, infos) \/ whisper_GetInfoThrows(r)
    \/ whisper_Download(r) \/ whisper_DownloadThrows(r)
    \/ whisper_Write(r) \/ whisper_WriteThrows(r)
    \/ whisper_OpenAI(r) \/ whisper_OpenAIThrows(r)
    \/ whisper_TranscribedFrom(r, transcriptions) \/ whisper_TranscribeThrows(r)
    \/ whisper_Finally(r)
    \/ caption_Import(r) \/ caption_ImportFails(r)
    \/ caption_GetInfoFrom(r, trackLists) \/ caption_GetInfoThrows(r)
    \/ caption_FetchFrom(r, eventLists) \/ caption_FetchThrows(r)

\* One request after the other; the caption tracks, the caption documents and
\* the transcriptions come in every shape up to the bounds.
NextTranscripts ==
    Tick \/ \E r \in Reqs :
        TranscribeStep(r, TranscribeRequests, InfosPlain, TrackLists, EventLists,
                       Transcriptions)

SpecTranscripts == Init /\ [][NextTranscripts]_vars

\* ------------------------------------------- POST /transcribe, concurrently

\* Every slot takes requests: the handlers interleave at their awaits.
InitConcurrent ==
    /\ OPENAI_API_KEY \in BOOLEAN
    /\ ytdlInstalled \in BOOLEAN
    /\ clock = 0
    /\ fs = {}
    /\ pc = [r \in Reqs |-> "idle"]
    /\ req = [r \in Reqs |-> NoRequest]
    /\ videoId = [r \in Reqs |-> NoMatch]
    /\ tmpFile = [r \in Reqs |-> NoFile]
    /\ info = [r \in Reqs |-> NoInfo]
    /\ chosen = [r \in Reqs |-> NoFormat]
    /\ calls = [r \in Reqs |-> {}]
    /\ thrown = [r \in Reqs |-> {}]
    /\ tracks = [r \in Reqs |-> NoTracks]
    /\ track = [r \in Reqs |-> NoTrack]
    /\ data = [r \in Reqs |-> NoData]
    /\ transcription = [r \in Reqs |-> NoTranscription]
    /\ resp = [r \in Reqs |-> NoResponse]

ConcurrentRequests ==
    {q \in TranscribeRequests : q.url.text \in {UrlWatch, UrlShortLink}}
ConcurrentInfos ==
    {i \in InfosPlain : i.lengthSeconds = MaxDuration
                        /\ \A k \in 1..Len(i.formats) : IsAudioOnly(i.formats[k])}

NextConcurrent ==
    Tick \/ \E r \in Reqs :
        TranscribeStep(r, ConcurrentRequests, ConcurrentInfos, {<<>>, <<En>>},
                       {<<>>, <<EventHi>>},
                       {t \in Transcriptions : t.segments = <<SegHi>>})

SpecConcurrent == InitConcurrent /\ [][NextConcurrent]_vars

\* ============================================================== the claims

Done(r) == pc[r] = "done"
IsTranscribe(r) == req[r].op = "transcribe POST"
IsDownloadPOST(r) == req[r].op = "download POST"
IsDownloadGET(r) == req[r].op = "download GET"

\* The audio-only variants of a list, as the claims speak of them.
AudioOnlyOf(formats) == {i \in 1..Len(formats) : ~formats[i].hasVideo /\ formats[i].hasAudio}

\* C1: once a transcription request has completed, on whichever exit path
\* (success, TooLong, caption fallback, an exception at any step), the temp
\* file it named does not exist.
C1_TempFileGone ==
    \A r \in Reqs : (Done(r) /\ IsTranscribe(r)) => ~Exists(fs, tmpFile[r])

\* A transcription that wrote its temp file and then threw in the Whisper
\* call has completed.
C1_Witness ==
    \E r \in Reqs :
        /\ Done(r) /\ IsTranscribe(r)
        /\ tmpFile[r] # NoFile
        /\ "writeFile" \in calls[r]
        /\ "whisper" \in thrown[r]
        /\ resp[r].status = 500

\* C2: in the credentialed path a duration above 1800 s ends in the 400
\* TooLong response with no audio download, no temp-file write and no call of
\* the transcription provider; a duration of 1800 s or less is never answered
\* TooLong.
C2_DurationGuard ==
    \A r \in Reqs :
        (IsTranscribe(r) /\ info[r].resolved) =>
            /\ durationOf(info[r]) > 1800 =>
                  /\ pc[r] \in {"w_finally", "done"}
                  /\ resp[r].status = 400
                  /\ resp[r].error = "Video too long"
                  /\ calls[r] \cap {"download", "writeFile", "whisper"} = {}
            /\ durationOf(info[r]) <= 1800 => resp[r].error # "Video too long"

\* Both sides of the ceiling are reached: a completed request of 1801 s, and
\* one of exactly 1800 s whose audio is being downloaded.
C2_Witness ==
    \E r \in Reqs :
        /\ Done(r) /\ IsTranscribe(r) /\ info[r].resolved
        /\ info[r].lengthSeconds = 1801
        /\ AudioOnlyOf(info[r].formats) # {}
        /\ resp[r].status = 400

C2_WitnessAtCeiling ==
    \E r \in Reqs :
        /\ IsTranscribe(r) /\ info[r].resolved
        /\ info[r].lengthSeconds = 1800
        /\ "download" \in calls[r]

\* A completed transcription request whose url passed validation and
\* identifier extraction: the decisions of the orchestrator have been taken.
Decided(r) == Done(r) /\ IsTranscribe(r) /\ videoId[r].ok

\* C3, as claimed: (1) no credential: caption lookup, never a download or
\* Whisper; (2) credential, and the library absent or no audio-only variant:
\* caption lookup, whatever the duration; (3) only then a duration above
\* 1800 s: TooLong; (4) otherwise download and transcribe.
C3_OrderAsClaimed ==
    \A r \in Reqs :
        Decided(r) =>
            /\ ~OPENAI_API_KEY =>
                  /\ "captionFallback" \in calls[r]
                  /\ calls[r] \cap {"download", "whisper"} = {}
            /\ (OPENAI_API_KEY /\ ~ytdlInstalled) => "captionFallback" \in calls[r]
            /\ (OPENAI_API_KEY /\ info[r].resolved /\ AudioOnlyOf(info[r].formats) = {}) =>
                  "captionFallback" \in calls[r]
            /\ (OPENAI_API_KEY /\ info[r].resolved /\ AudioOnlyOf(info[r].formats) # {}) =>
                  IF durationOf(info[r]) > 1800
                  THEN resp[r].error = "Video too long"
                  ELSE "download" \in calls[r]

\* C3, amended: (1) no credential: caption lookup, never a download or
\* Whisper; (2) credential and the library absent: caption lookup; (3) the
\* library loaded and the duration above 1800 s: TooLong, and no caption
\* lookup, whether or not the video has an audio-only variant; (4) only then,
\* no audio-only variant: caption lookup; (5) otherwise download.
C3_OrderOfTheCode ==
    \A r \in Reqs :
        Decided(r) =>
            /\ ~OPENAI_API_KEY =>
                  /\ "captionFallback" \in calls[r]
                  /\ calls[r] \cap {"download", "whisper"} = {}
            /\ (OPENAI_API_KEY /\ ~ytdlInstalled) => "captionFallback" \in calls[r]
            /\ (OPENAI_API_KEY /\ info[r].resolved /\ durationOf(info[r]) > 1800) =>
                  /\ resp[r].error = "Video too long"
                  /\ "captionFallback" \notin calls[r]
            /\ (OPENAI_API_KEY /\ info[r].resolved /\ durationOf(info[r]) <= 1800) =>
                  IF AudioOnlyOf(info[r].formats) = {}
                  THEN "captionFallback" \in calls[r] /\ "download" \notin calls[r]
                  ELSE "download" \in calls[r] /\ "captionFallback" \notin calls[r]

\* A credentialed request for a video of 1801 s with no audio-only variant has
\* completed.
C3_Witness ==
    \E r \in Reqs :
        /\ Decided(r) /\ OPENAI_API_KEY /\ info[r].resolved
        /\ info[r].lengthSeconds = 1801
        /\ AudioOnlyOf(info[r].formats) = {}
        /\ resp[r].status = 400

\* The url is one the Validator accepts.
Accepted(r) == ~Falsy(req[r].url) /\ ytRegex(req[r].url.text)

\* The response is an error envelope of a kind a missing capability or a
\* failed provider produces: not the 404 of a video without a suitable variant
\* or without captions.
NotFound(response) ==
    response.status = 404
    /\ response.error \in {"No suitable format found", "No captions available"}

\* C4: a request whose only problem is a missing capability (the credential
\* is not configured, or the extraction library cannot be loaded; the input is
\* valid and no provider that was called threw) ends in a success, a degraded
\* success or a redirect, never in an error envelope caused by the absence.
C4_AbsenceIsNoError ==
    \A r \in Reqs :
        ( /\ Done(r)
          /\ IF IsDownloadGET(r) THEN ~Falsy(req[r].url) ELSE Accepted(r)
          /\ thrown[r] = {}
          /\ ~OPENAI_API_KEY \/ ~ytdlInstalled
          /\ ~NotFound(resp[r]) )
        => resp[r].status \in {200, 307}

\* C5: in POST /download with a valid url, the library absent: noembed is
\* invoked and a 200 response has no formats and carries the note; the library
\* loaded and getInfo failing: a 500, and noembed is never invoked.
C5_MetadataFallback ==
    \A r \in Reqs :
        (Done(r) /\ IsDownloadPOST(r) /\ Accepted(r)) =>
            /\ ~ytdlInstalled =>
                  /\ "noembed" \in calls[r]
                  /\ resp[r].status = 200 =>
                        (resp[r].formats = <<>> /\ resp[r].note # "")
            /\ (ytdlInstalled /\ "getInfo" \in thrown[r]) =>
                  /\ resp[r].status = 500
                  /\ "noembed" \notin calls[r]

\* decodeURIComponent, the inverse the caller of the redirect target applies.
Unescape(a, b) ==
    CASE <<a, b>> = <<"3", "A">> -> ":"
      [] <<a, b>> = <<"2", "F">> -> "/"
      [] <<a, b>> = <<"3", "F">> -> "?"
      [] <<a, b>> = <<"3", "D">> -> "="
      [] <<a, b>> = <<"2", "6">> -> "&"
      [] <<a, b>> = <<"2", "3">> -> "#"
      [] <<a, b>> = <<"2", "5">> -> "%"
      [] OTHER -> "\\invalid"

RECURSIVE decodeFrom(_, _)
decodeFrom(s, i) ==
    IF i > Len(s) THEN <<>>
    ELSE IF s[i] = "%"
         THEN IF i + 2 <= Len(s)
              THEN <<Unescape(s[i + 1], s[i + 2])>> \o decodeFrom(s, i + 3)
              ELSE <<"\\invalid">>
         ELSE <<s[i]>> \o decodeFrom(s, i + 1)

\* The characters that end or split a URL fragment or query value.
Reserved == {":", "/", "?", "=", "&", "#"}

\* The response redirects to the third-party downloader, with this url in it,
\* URL-encoded.
RedirectsWith(response, url) ==
    /\ response.kind = "redirect"
    /\ response.status \in 300..399
    /\ StartsAt(response.location, 1, CobaltPrefix)
    /\ LET embedded == SubSeq(response.location, Len(CobaltPrefix) + 1,
                              Len(response.location))
       IN  /\ \A i \in 1..Len(embedded) : embedded[i] \notin Reserved
           /\ decodeFrom(embedded, 1) = url

\* C6: in GET /download with a url, every failure of the primary provider
\* (getInfo throws, the stream throws) and the absence of the library end in a
\* redirect to the third-party downloader whose target holds the caller's url,
\* URL-encoded; never in a 500.
C6_RedirectNotError ==
    \A r \in Reqs :
        ( /\ Done(r) /\ IsDownloadGET(r)
          /\ ~Falsy(req[r].url)
          /\ ~ytdlInstalled \/ thrown[r] # {} )
        => /\ RedirectsWith(resp[r], req[r].url.text)
           /\ resp[r].status # 500

\* A download whose stream threw has completed, for a url with characters
\* that need escaping.
C6_Witness ==
    \E r \in Reqs :
        /\ Done(r) /\ IsDownloadGET(r)
        /\ req[r].url.text = UrlWatchAmp
        /\ "download" \in thrown[r]
        /\ resp[r].kind = "redirect"

\* C7: in the three operations a missing url or one the Validator does not
\* accept yields a 400 with a message; no provider is called and no redirect
\* issued for it.
C7_ValidatedFirst ==
    \A r \in Reqs :
        (Done(r) /\ ~Accepted(r)) =>
            /\ resp[r].status = 400
            /\ resp[r].error # ""
            /\ calls[r] = {}
            /\ resp[r].kind # "redirect"

\* Identifier extraction has run for the request: in the transcribe handler,
\* or in noembedFallback.
ExtractionRan(r) ==
    \/ IsTranscribe(r) /\ pc[r] \notin {"idle", "start"}
    \/ IsDownloadPOST(r) /\ ~ytdlInstalled /\ pc[r] \in {"n_fetch", "done"}

\* C8: for every url the Validator accepts, identifier extraction succeeds
\* with an identifier of at least 6 characters, in the transcribe handler and
\* in the lightweight-lookup path of the download handler alike; every other
\* url is answered InvalidInput.
C8_IdentifierExtracted ==
    \A r \in Reqs :
        /\ (Accepted(r) /\ ExtractionRan(r)) =>
              (videoId[r].ok /\ Len(videoId[r].id) >= 6)
        /\ (Done(r) /\ ~IsDownloadGET(r) /\ ~Accepted(r)) => resp[r].status = 400

\* The label the documented table gives a tier; 1080p for any other tier.
DocumentedLabel(tier) ==
    CASE tier = "4K" -> "2160p"
      [] tier = "2K" -> "1440p"
      [] tier \in {"1080p", "720p", "480p", "360p"} -> tier
      [] OTHER -> "1080p"

\* The variants that carry both video and audio, by their place in the list.
VideoAndAudioOf(formats) == {i \in 1..Len(formats) : formats[i].hasVideo /\ formats[i].hasAudio}

FirstOf(places) == CHOOSE i \in places : \A j \in places : i <= j

\* The place of the variant the documented priority picks: the first with the
\* label, else the first labelled 720p, else the first.
DocumentedChoice(formats, label) ==
    LET cand == VideoAndAudioOf(formats)
        exact == {i \in cand : formats[i].qualityLabel = label}
        safe == {i \in cand : formats[i].qualityLabel = "720p"}
    IN  IF exact # {} THEN FirstOf(exact)
        ELSE IF safe # {} THEN FirstOf(safe)
        ELSE FirstOf(cand)

\* C9: for a video request of GET /download the tier is mapped by the table
\* (any unrecognized tier to 1080p) and the variant chosen is the first with
\* the mapped label, else the first labelled 720p, else the first; the answer
\* is 404 exactly when no variant carries both video and audio, and then the
\* stream is never started.
C9_VideoSelection ==
    \A r \in Reqs :
        (IsDownloadGET(r) /\ req[r].format # "mp3" /\ info[r].resolved) =>
            LET formats == info[r].formats
                label == DocumentedLabel(QualityOrDefault(req[r].quality))
            IN  IF VideoAndAudioOf(formats) = {}
                THEN /\ Done(r) /\ resp[r].status = 404
                     /\ "download" \notin calls[r]
                ELSE /\ chosen[r] = formats[DocumentedChoice(formats, label)]
                     /\ resp[r].status # 404
                     /\ "download" \in calls[r]

\* parseInt(audioBitrate || 0) as the claim reads it: a missing bitrate is 0.
BitrateOrZero(f) == IF f.audioBitrate = NoBitrate THEN 0 ELSE f.audioBitrate

\* The request has picked its best audio variant.
AudioSelected(r) ==
    \/ IsDownloadGET(r) /\ req[r].format = "mp3" /\ info[r].resolved
    \/ IsTranscribe(r) /\ info[r].resolved /\ durationOf(info[r]) <= 1800

\* C10: for an audio-only request (format mp3 in GET /download, best audio in
\* transcription) the variant chosen is audio-only, its bitrate is the highest
\* among the audio-only variants (a missing bitrate counts as 0), it is the
\* first of those with that bitrate in the provider's order, and it never
\* carries video; none is chosen only when there is no audio-only variant.
C10_BestAudio ==
    \A r \in Reqs :
        AudioSelected(r) =>
            LET formats == info[r].formats
                cand == AudioOnlyOf(formats)
            IN  IF cand = {} THEN chosen[r] = NoFormat
                ELSE /\ chosen[r].itag \in cand
                     /\ chosen[r] = formats[chosen[r].itag]
                     /\ ~chosen[r].hasVideo
                     /\ \A i \in cand :
                           /\ BitrateOrZero(formats[i]) <= BitrateOrZero(chosen[r])
                           /\ BitrateOrZero(formats[i]) = BitrateOrZero(chosen[r])
                                 => chosen[r].itag <= i

\* An mp3 download streams the second variant of a list whose first variant is
\* audio-only with no bitrate and whose second has 128.
C10_Witness ==
    \E r \in Reqs :
        /\ IsDownloadGET(r) /\ req[r].format = "mp3" /\ pc[r] = "g_stream"
        /\ Len(info[r].formats) = 2
        /\ AudioOnlyOf(info[r].formats) = {1, 2}
        /\ info[r].formats[1].audioBitrate = NoBitrate
        /\ chosen[r].itag = 2

\* Two audio-only variants tied at the highest bitrate: the first is chosen,
\* here for a transcription.
C10_WitnessTie ==
    \E r \in Reqs :
        /\ IsTranscribe(r) /\ pc[r] = "w_download"
        /\ Len(info[r].formats) = 2
        /\ AudioOnlyOf(info[r].formats) = {1, 2}
        /\ info[r].formats[1].audioBitrate = info[r].formats[2].audioBitrate
        /\ chosen[r].itag = 1

\* ------------------------------------------------------------------- C11

\* The request has looked for captions: captionFallback's getInfo resolved.
LookedUp(r) == Done(r) /\ tracks[r].resolved

IsEn(code) == code = En
StartsWithEn(code) == Len(code) >= Len(En) /\ SubSeq(code, 1, Len(En)) = En

\* The track of the documented priority: the first with the code "en", else
\* the first whose code starts with "en", else the first.
DocumentedTrack(list) ==
    CHOOSE i \in 1..Len(list) :
        \/ IsEn(list[i]) /\ \A j \in 1..(i - 1) : ~IsEn(list[j])
        \/ /\ \A j \in 1..Len(list) : ~IsEn(list[j])
           /\ StartsWithEn(list[i]) /\ \A j \in 1..(i - 1) : ~StartsWithEn(list[j])
        \/ /\ \A j \in 1..Len(list) : ~StartsWithEn(list[j])
           /\ i = 1

NonTrivial(text) == Len(text) > 1

\* The texts of the events that carry text, in the document's order, the
\* trivial ones left out.
KeptTexts(events) ==
    LET withText == SelectSeq(events, HasSegs)
    IN  SelectSeq([i \in 1..Len(withText) |-> eventSegment(withText[i]).text], NonTrivial)

RECURSIVE SpaceJoined(_)
SpaceJoined(texts) ==
    IF Len(texts) = 0 THEN <<>>
    ELSE IF Len(texts) = 1 THEN texts[1]
    ELSE SpaceJoined(SubSeq(texts, 1, Len(texts) - 1)) \o <<" ">> \o texts[Len(texts)]

NoCaptionsAvailable(r) ==
    resp[r].status = 404 /\ resp[r].error = "No captions available"

\* C11: the caption lookup takes the first track whose code is exactly "en",
\* else the first whose code starts with "en", else the first track; it
\* answers 404 "No captions available" exactly when the video has no track
\* or the chosen track's document yields no non-trivial segment; otherwise
\* it answers 200 with source "youtube-captions", the chosen track's code as
\* language and, as transcript, the kept texts joined by single spaces in
\* the document's order.
C11_CaptionLookup ==
    \A r \in Reqs : LookedUp(r) =>
        LET list == tracks[r].list
            kept == KeptTexts(data[r].events)
        IN  /\ NoCaptionsAvailable(r) <=> (list = <<>> \/ (data[r].resolved /\ kept = <<>>))
            /\ list # <<>> =>
                  /\ "captionFetch" \in calls[r]
                  /\ track[r] = DocumentedTrack(list)
            /\ (data[r].resolved /\ kept # <<>>) =>
                  /\ resp[r].status = 200
                  /\ resp[r].source = "youtube-captions"
                  /\ resp[r].language = list[DocumentedTrack(list)]
                  /\ resp[r].transcript = SpaceJoined(kept)
                  /\ [i \in 1..Len(resp[r].segments) |-> resp[r].segments[i].text] = kept

\* Captions found on the exact "en" track that follows an "en-US" track, two
\* texts kept.
C11_Witness ==
    \E r \in Reqs :
        /\ LookedUp(r) /\ data[r].resolved
        /\ tracks[r].list = << <<"e","n","-","U","S">>, En >> /\ track[r] = 2
        /\ Len(data[r].events) = 2
        /\ resp[r].status = 200 /\ resp[r].language = En
        /\ resp[r].transcript = <<"h","i"," ","a"," ","b">>

\* No "en" track at all: the first track is taken; its document holds events
\* but none with a non-trivial text.
C11_WitnessNoneKept ==
    \E r \in Reqs :
        /\ LookedUp(r) /\ data[r].resolved
        /\ tracks[r].list = << <<"f","r">>, <<"f","r">> >> /\ track[r] = 1
        /\ Len(data[r].events) = 2
        /\ \A i \in 1..2 : data[r].events[i].hasSegs
        /\ NoCaptionsAvailable(r)

\* ------------------------------------------------------------------- C12

Succeeded(r) == Done(r) /\ resp[r].status = 200 /\ resp[r].kind = "json"

\* The documented envelopes.
TranscriptFields ==
    {"success", "title", "transcript", "segments", "language", "duration",
     "wordCount", "source"}
TranscriptSources == {"whisper", "youtube-captions"}
VideoFields == {"id", "title", "channel", "duration", "views", "thumbnail", "formats"}

\* C12: every success response has the documented envelope, whichever tier
\* answered: a transcription carries success, title, transcript, segments,
\* language, duration, wordCount and source, the source being whisper or
\* youtube-captions; a metadata response carries a video with id, title,
\* channel, duration, views, thumbnail and formats.
C12_StableEnvelope ==
    \A r \in Reqs : Succeeded(r) =>
        /\ IsTranscribe(r) =>
              /\ TranscriptFields \subseteq resp[r].fields
              /\ resp[r].source \in TranscriptSources
        /\ IsDownloadPOST(r) =>
              /\ {"success", "video"} \subseteq resp[r].fields
              /\ VideoFields \subseteq resp[r].video

\* ------------------------------------------------------------------- C13

\* writeFile has resolved for r: the next step of r opens tmpFile and hands
\* it to the transcription provider.
AboutToHandOver(r) == pc[r] = "w_openai"

OwnFileExists(r) == \E f \in fs : f.name = tmpFile[r] /\ f.by = r

\* C13: with transcription requests running concurrently, two of them for the
\* same video in the same tick of the clock included, the file a request
\* hands to the transcription provider exists at that moment and is the one
\* the request wrote itself.
C13_OwnTempFile ==
    \A r \in Reqs : AboutToHandOver(r) => OwnFileExists(r)

\* ------------------------------------------------------------------- C14

Transcribed(r) ==
    Done(r) /\ IsTranscribe(r) /\ resp[r].status = 200
    /\ resp[r].source \in TranscriptSources

WellFormed(s) == s.start >= 0 /\ s.end > s.start /\ trim(s.text) # <<>>

\* C14: every segment of a successful transcription response, of the Whisper
\* tier and of the caption tier alike, starts at 0 or later, ends after it
\* starts and has a text that is not empty once trimmed; a segment of the
\* provider that is not so is clamped or dropped, never returned.
C14_SegmentsWellFormed ==
    \A r \in Reqs : Transcribed(r) =>
        \A i \in 1..Len(resp[r].segments) : WellFormed(resp[r].segments[i])

====
